---- MODULE Spec2Model ----
(***************************************************************************)
(* Browser resource pool (app/services/browser_pool.py) and the requests   *)
(* that lease contexts from it (app/services/screenshot_service.py,        *)
(* app/services/image_extraction_service.py, app/routes/*.py).             *)
(*                                                                         *)
(* All requests run as asyncio tasks on one event loop: a step of the      *)
(* model is the code a task runs between two awaits.  The overall          *)
(* operation timeout (asyncio.wait_for) cancels the task at whichever      *)
(* await it is parked on; CancelledError is a BaseException, so the        *)
(* `except Exception` handlers of the pool do not see it.                  *)
(***************************************************************************)
EXTENDS Integers, Sequences, FiniteSets

\* ---------------------------------------------------------------- bounds
NumRequests == 3
MaxConcurrent == 2
MaxBrowsers == 2
MaxListLen == 3
MaxStops == 2

Requests == 1..NumRequests
BrowserIds == 1..MaxBrowsers

VARIABLES
    semaphore,   \* BrowserPool._semaphore: its internal counter
    lock,        \* BrowserPool._lock: 0 when free, else the holding request
    browser,     \* BrowserPool._browser: 0 is None, else the Browser object
    connected,   \* the Browser objects whose is_connected() is True
    launched,    \* number of Browser objects launched so far
    pc,          \* each request's position (the await it is parked on)
    attempt,     \* acquire_context: the loop variable `attempt`
    target,      \* acquire_context: the Browser object new_context was called on
    context,     \* the leased BrowserContext: 0 is none, else its Browser
    slots,       \* semaphore units a request has acquired and not released
    outcome,     \* what the service call returns ("ok") or the exception it raises
    response,    \* the route's HTTP response
    \* --- one capture and one extraction, stage by stage ---
    job,         \* the page, the URL and the delays both operations are given
    stage,       \* the await each of the two operations is parked on
    trace,       \* the pipeline stages each has run: operation, budget, how it ended
    holds,       \* the operation holds a pool slot
    permits,     \* the pool's free slots
    closeRaised, \* context.close() raised inside release_context
    result,      \* what the operation returns ("ok") or the exception it raises
    reply,       \* the route's HTTP response to each
    \* --- the transform of the extracted image list ---
    transform,   \* its arguments, its locals and its return value
    \* --- the life cycle of the pool ---
    life,        \* BrowserPool._playwright and the calls of stop()
    \* --- the scripts evaluated in the page ---
    probe,       \* WAIT_FOR_CONTENT_JS: the document, the clock, the value returned
    scroll       \* AUTO_SCROLL_JS: the page height, the timer, the distance scrolled

poolVars == <<semaphore, lock, browser, connected, launched>>
reqVars == <<pc, attempt, target, context, slots, outcome, response>>

\* How the page behaves: which waits succeed, what the probe sees.
page == job.page
\* The URL of the request body, as urlparse splits it.
url == job.url
\* The delay the caller asks for (ms).
delay == job.delay
\* settings.screenshot_post_load_delay (ms).
postLoad == job.postLoad

pipeVars == <<job, stage, trace, holds, permits, closeRaised, result, reply>>

\* image_data["allImages"]: what the page query returned.
allImages == transform.allImages
\* extract_images: min_width, min_height, max_images.
minWidth == transform.minWidth
minHeight == transform.minHeight
maxImages == transform.maxImages
\* image_data["pageContext"]: the viewport.
pageContext == transform.pageContext
\* The locals and the return value of the transform.
extraction == transform.extraction

imgVars == <<transform>>

lifeVars == <<life>>

scriptVars == <<probe, scroll>>

vars == <<poolVars, reqVars, pipeVars, imgVars, lifeVars, scriptVars>>

\* ------------------------------------------------------------ the routes
\* A response is its status code and the keys of its JSON content.
NoResponse == [status |-> 0]

\* The exceptions that are instances of asyncio.TimeoutError: the expiry of
\* the overall asyncio.wait_for, of the one around page.screenshot and of the
\* one around the upload.
AsyncioTimeouts == {"timeout", "capture_timeout", "upload_timeout"}

\* Mutant: the handler of other exceptions answers without a retryable flag.
RouteResponseNoFlag(ended) ==
    CASE ended = "ok" -> [status |-> 200, success |-> TRUE]
      [] ended \in AsyncioTimeouts ->
            [status |-> 504, error |-> "Screenshot capture timed out",
             timeout |-> TRUE, retryable |-> TRUE]
      [] OTHER -> [status |-> 500, error |-> ended]

\* routes/screenshot.py: the response built for each way the `try` block ends.
RouteResponse(ended) ==
    CASE ended = "ok" -> [status |-> 200, success |-> TRUE]
      [] ended \in AsyncioTimeouts ->
            [status |-> 504, error |-> "Screenshot capture timed out",
             timeout |-> TRUE, retryable |-> TRUE]
      [] OTHER -> [status |-> 500, error |-> ended, retryable |-> FALSE]

\* routes/images.py: the same three ways, with a success flag.
ImagesResponse(ended) ==
    CASE ended = "ok" -> [status |-> 200, success |-> TRUE]
      [] ended \in AsyncioTimeouts ->
            [status |-> 504, success |-> FALSE, error |-> "Image extraction timed out",
             timeout |-> TRUE, retryable |-> TRUE]
      [] OTHER -> [status |-> 500, success |-> FALSE, error |-> ended, retryable |-> FALSE]

\* Both routes: the response to a URL validate_url rejects.
InvalidUrlResponse(k, reason) ==
    IF k = "capture"
    THEN [status |-> 400, error |-> "Invalid URL", message |-> reason]
    ELSE [status |-> 400, success |-> FALSE, error |-> "Invalid URL", message |-> reason]

Respond(k, ended) == IF k = "capture" THEN RouteResponse(ended) ELSE ImagesResponse(ended)

\* middleware/security.py: a URL as urlparse splits it: the scheme, what the
\* host name looks like, whether user name or password are present.
HostKinds == {"public", "blocked", "internal_suffix", "private_ip", "decimal", "octal", "hex"}

Urls ==
    { [scheme |-> "https", host |-> "public", userinfo |-> FALSE],
      [scheme |-> "ftp", host |-> "public", userinfo |-> FALSE],
      [scheme |-> "http", host |-> "blocked", userinfo |-> FALSE],
      [scheme |-> "https", host |-> "private_ip", userinfo |-> TRUE],
      [scheme |-> "https", host |-> "public", userinfo |-> TRUE],
      [scheme |-> "http", host |-> "decimal", userinfo |-> FALSE] }

\* validate_url: the reason of the first check that rejects, or "valid".
ValidateUrl(u) ==
    IF u.scheme \notin {"http", "https"} THEN "protocol"
    ELSE IF u.host = "blocked" THEN "private"
    ELSE IF u.host = "internal_suffix" THEN "private"
    ELSE IF u.host = "private_ip" THEN "private"
    ELSE IF u.userinfo THEN "credentials"
    ELSE IF u.host = "decimal" THEN "numeric"
    ELSE IF u.host = "octal" THEN "octal"
    ELSE IF u.host = "hex" THEN "hexadecimal"
    ELSE "valid"

\* The service call ends with `ended` (the locals of acquire_context are
\* gone): the route answers.
Finish(p, ended) ==
    /\ pc' = [pc EXCEPT ![p] = "done"]
    /\ attempt' = [attempt EXCEPT ![p] = 0]
    /\ target' = [target EXCEPT ![p] = 0]
    /\ outcome' = [outcome EXCEPT ![p] = ended]
    /\ response' = [response EXCEPT ![p] = RouteResponse(ended)]

\* ------------------------------------------------------------- the pool
\* Mutant: acquire returns whatever the counter is.
SemaphoreFreeAlways == TRUE

\* asyncio.Semaphore.acquire returns only while the counter is positive.
SemaphoreFree == semaphore > 0

\* Mutant: the guard is entered without waiting for its holder.
LockFreeAlways == TRUE

\* asyncio.Lock.acquire returns only while the lock is not held.
LockFree == lock = 0

\* _ensure_browser's test: the handle is present and connected.
BrowserUsable == browser # 0 /\ browser \in connected

\* asyncio.Semaphore.release: the counter goes up by one, unconditionally.
SemRelease(p) ==
    /\ semaphore' = semaphore + 1
    /\ slots' = [slots EXCEPT ![p] = @ - 1]

\* acquire_context, line 52: await self._semaphore.acquire()
SemAcquire(p) ==
    /\ pc[p] = "sem_wait"
    /\ SemaphoreFree
    /\ semaphore' = semaphore - 1
    /\ slots' = [slots EXCEPT ![p] = @ + 1]
    /\ pc' = [pc EXCEPT ![p] = "ensure_wait"]
    /\ UNCHANGED <<lock, browser, connected, launched, attempt, target, context,
                   outcome, response>>
    /\ UNCHANGED <<pipeVars, imgVars, lifeVars, scriptVars>>

\* _ensure_browser with a usable browser: the lock is taken and given back
\* without an await, and new_context is called on the browser at once.
EnsureUsable(p) ==
    /\ pc[p] = "ensure_wait"
    /\ LockFree
    /\ BrowserUsable
    /\ target' = [target EXCEPT ![p] = browser]
    /\ pc' = [pc EXCEPT ![p] = "new_context"]
    /\ UNCHANGED <<semaphore, lock, browser, connected, launched, attempt, context,
                   slots, outcome, response>>
    /\ UNCHANGED <<pipeVars, imgVars, lifeVars, scriptVars>>

\* Mutant: the relaunch is made whatever the handle says.
EnsureRelaunchAlways(p) ==
    /\ pc[p] = "ensure_wait"
    /\ LockFree
    /\ lock' = p
    /\ pc' = [pc EXCEPT ![p] = IF browser # 0 THEN "ensure_close" ELSE "ensure_launch"]
    /\ UNCHANGED <<semaphore, browser, connected, launched, attempt, target, context,
                   slots, outcome, response>>
    /\ UNCHANGED <<pipeVars, imgVars, lifeVars, scriptVars>>

\* _ensure_browser with an absent or disconnected browser: the lock is kept
\* across the awaits of close() (when there is a handle) and launch().
EnsureRelaunch(p) ==
    /\ pc[p] = "ensure_wait"
    /\ LockFree
    /\ ~BrowserUsable
    /\ lock' = p
    /\ pc' = [pc EXCEPT ![p] = IF browser # 0 THEN "ensure_close" ELSE "ensure_launch"]
    /\ UNCHANGED <<semaphore, browser, connected, launched, attempt, target, context,
                   slots, outcome, response>>
    /\ UNCHANGED <<pipeVars, imgVars, lifeVars, scriptVars>>

\* _ensure_browser, lines 44-48: await self._browser.close(), errors swallowed.
EnsureClose(p) ==
    /\ pc[p] = "ensure_close"
    /\ connected' = connected \ {browser}
    /\ pc' = [pc EXCEPT ![p] = "ensure_launch"]
    /\ UNCHANGED <<semaphore, lock, browser, launched, attempt, target, context,
                   slots, outcome, response>>
    /\ UNCHANGED <<pipeVars, imgVars, lifeVars, scriptVars>>

\* _launch_browser succeeds: the handle is the new browser, the lock is
\* released, and new_context is called on the new browser.
EnsureLaunchOk(p) ==
    /\ pc[p] = "ensure_launch"
    /\ life.driver = "running"
    /\ launched < MaxBrowsers
    /\ launched' = launched + 1
    /\ browser' = launched + 1
    /\ connected' = connected \cup {launched + 1}
    /\ lock' = 0
    /\ target' = [target EXCEPT ![p] = launched + 1]
    /\ pc' = [pc EXCEPT ![p] = "new_context"]
    /\ UNCHANGED <<semaphore, attempt, context, slots, outcome, response>>
    /\ UNCHANGED <<pipeVars, imgVars, lifeVars, scriptVars>>

\* Mutant: the failed launch leaves the lock taken.
EnsureLaunchFailKeepsLock(p) ==
    /\ pc[p] = "ensure_launch"
    /\ lock' = lock
    /\ SemRelease(p)
    /\ Finish(p, "launch_error")
    /\ UNCHANGED <<browser, connected, launched, context>>
    /\ UNCHANGED <<pipeVars, imgVars, lifeVars, scriptVars>>

\* _launch_browser raises: the lock is released by `async with`, the handler
\* of lines 78-80 releases the slot and the error reaches the caller.
EnsureLaunchFail(p) ==
    /\ pc[p] = "ensure_launch"
    /\ lock' = 0
    /\ SemRelease(p)
    /\ Finish(p, "launch_error")
    /\ UNCHANGED <<browser, connected, launched, context>>
    /\ UNCHANGED <<pipeVars, imgVars, lifeVars, scriptVars>>

\* new_context returns a context of the browser it was called on.
NewContextOk(p) ==
    /\ pc[p] = "new_context"
    /\ target[p] \in connected
    /\ context' = [context EXCEPT ![p] = target[p]]
    /\ attempt' = [attempt EXCEPT ![p] = 0]
    /\ target' = [target EXCEPT ![p] = 0]
    /\ pc' = [pc EXCEPT ![p] = "lease"]
    /\ UNCHANGED <<poolVars, slots, outcome, response>>
    /\ UNCHANGED <<pipeVars, imgVars, lifeVars, scriptVars>>

\* Mutant: every failed attempt is retried.
MayRetryAlways(p) == TRUE

\* line 67: the failure of an attempt is answered by a discard and a retry.
MayRetry(p) == attempt[p] = 0

\* new_context raises on the first attempt: go and discard the browser.
NewContextRetry(p) ==
    /\ pc[p] = "new_context"
    /\ MayRetry(p)
    /\ pc' = [pc EXCEPT ![p] = "discard_wait"]
    /\ UNCHANGED <<poolVars, attempt, target, context, slots, outcome, response>>
    /\ UNCHANGED <<pipeVars, imgVars, lifeVars, scriptVars>>

\* Mutant: the failure of the retry propagates without the release of lines
\* 78-80.
NewContextFailLeaks(p) ==
    /\ pc[p] = "new_context"
    /\ ~MayRetry(p)
    /\ Finish(p, "context_error")
    /\ UNCHANGED <<poolVars, context, slots>>
    /\ UNCHANGED <<pipeVars, imgVars, lifeVars, scriptVars>>

\* new_context raises on the retry: line 77 re-raises, lines 78-80 release
\* the slot.
NewContextFail(p) ==
    /\ pc[p] = "new_context"
    /\ ~MayRetry(p)
    /\ SemRelease(p)
    /\ Finish(p, "context_error")
    /\ UNCHANGED <<lock, browser, connected, launched, context>>
    /\ UNCHANGED <<pipeVars, imgVars, lifeVars, scriptVars>>

\* lines 69-76 with no handle left: nothing to close, the handle stays None.
DiscardNone(p) ==
    /\ pc[p] = "discard_wait"
    /\ LockFree
    /\ browser = 0
    /\ attempt' = [attempt EXCEPT ![p] = @ + 1]
    /\ target' = [target EXCEPT ![p] = 0]
    /\ pc' = [pc EXCEPT ![p] = "ensure_wait"]
    /\ UNCHANGED <<poolVars, context, slots, outcome, response>>
    /\ UNCHANGED <<pipeVars, imgVars, lifeVars, scriptVars>>

\* lines 69-72: the lock is taken and whatever browser the handle names now
\* is closed.
DiscardEnter(p) ==
    /\ pc[p] = "discard_wait"
    /\ LockFree
    /\ browser # 0
    /\ lock' = p
    /\ pc' = [pc EXCEPT ![p] = "discard_close"]
    /\ UNCHANGED <<semaphore, browser, connected, launched, attempt, target, context,
                   slots, outcome, response>>
    /\ UNCHANGED <<pipeVars, imgVars, lifeVars, scriptVars>>

\* lines 72-76: close() returns or raises, the handle is set to None, the
\* lock is released and the loop continues with attempt 1.
DiscardClose(p) ==
    /\ pc[p] = "discard_close"
    /\ connected' = connected \ {browser}
    /\ browser' = 0
    /\ lock' = 0
    /\ attempt' = [attempt EXCEPT ![p] = @ + 1]
    /\ target' = [target EXCEPT ![p] = 0]
    /\ pc' = [pc EXCEPT ![p] = "ensure_wait"]
    /\ UNCHANGED <<semaphore, launched, context, slots, outcome, response>>
    /\ UNCHANGED <<pipeVars, imgVars, lifeVars, scriptVars>>

\* release_context: context.close() returns or raises (the error is only
\* logged); either way the `finally` releases the slot, and the result or
\* exception of the request body goes on to the caller.
ReleaseContext(p) ==
    /\ pc[p] = "release"
    /\ context' = [context EXCEPT ![p] = 0]
    /\ SemRelease(p)
    /\ Finish(p, outcome[p])
    /\ UNCHANGED <<lock, browser, connected, launched>>
    /\ UNCHANGED <<pipeVars, imgVars, lifeVars, scriptVars>>

\* The browser process dies: is_connected() turns False.
BrowserCrash ==
    /\ browser \in connected
    /\ connected' = connected \ {browser}
    /\ UNCHANGED <<semaphore, lock, browser, launched, reqVars>>
    /\ UNCHANGED <<pipeVars, imgVars, lifeVars, scriptVars>>

\* ------------------------------------------------- the leasing requests
\* _do_capture / _do_extract between acquire_context and the `finally`:
\* the page is opened, the readiness pipeline and the final operation run,
\* and the body returns its result.  (The stages are modelled one by one
\* in the pipeline specification below.)
LeaseOk(p) ==
    /\ pc[p] = "lease"
    /\ outcome' = [outcome EXCEPT ![p] = "ok"]
    /\ pc' = [pc EXCEPT ![p] = "release"]
    /\ UNCHANGED <<poolVars, attempt, target, context, slots, response>>
    /\ UNCHANGED <<pipeVars, imgVars, lifeVars, scriptVars>>

\* ... or one of its awaits raises: the `finally` runs release_context.
LeaseFail(p) ==
    /\ pc[p] = "lease"
    /\ outcome' = [outcome EXCEPT ![p] = "page_error"]
    /\ pc' = [pc EXCEPT ![p] = "release"]
    /\ UNCHANGED <<poolVars, attempt, target, context, slots, response>>
    /\ UNCHANGED <<pipeVars, imgVars, lifeVars, scriptVars>>

\* ------------------------------------------------------------- stop()
\* stop(), lines 91-92: the handle is tested; with a browser, close() is
\* awaited on it; the guard is not taken.
StopBegin ==
    /\ life.stop = "idle"
    /\ life.stops < MaxStops
    /\ browser # 0
    /\ life' = [life EXCEPT !.stop = "close", !.closing = browser]
    /\ UNCHANGED <<poolVars, reqVars>>
    /\ UNCHANGED <<pipeVars, imgVars, scriptVars>>

\* stop() with no handle: lines 96-97, the driver is stopped.
StopNoBrowser ==
    /\ life.stop = "idle"
    /\ life.stops < MaxStops
    /\ browser = 0
    /\ life.driver # "none"
    /\ life' = [life EXCEPT !.stop = "driver"]
    /\ UNCHANGED <<poolVars, reqVars>>
    /\ UNCHANGED <<pipeVars, imgVars, scriptVars>>

\* stop() on a pool never started: neither handle nor driver, nothing is
\* awaited.
StopNothing ==
    /\ life.stop = "idle"
    /\ life.stops < MaxStops
    /\ browser = 0
    /\ life.driver = "none"
    /\ life' = [life EXCEPT !.stops = @ + 1]
    /\ UNCHANGED <<poolVars, reqVars>>
    /\ UNCHANGED <<pipeVars, imgVars, scriptVars>>

\* line 93: close() returns, the browser is closed.
StopCloseOk ==
    /\ life.stop = "close"
    /\ connected' = connected \ {life.closing}
    /\ life' = [life EXCEPT !.stop = "driver", !.closing = 0]
    /\ UNCHANGED <<semaphore, lock, browser, launched, reqVars>>
    /\ UNCHANGED <<pipeVars, imgVars, scriptVars>>

\* Mutant: the error of close() leaves stop() before the driver is stopped.
StopCloseRaisesPropagates ==
    /\ life.stop = "close"
    /\ life' = [life EXCEPT !.stop = "idle", !.closing = 0, !.closeRaised = TRUE]
    /\ UNCHANGED <<poolVars, reqVars>>
    /\ UNCHANGED <<pipeVars, imgVars, scriptVars>>

\* lines 94-95: close() raises, the error is dropped.
StopCloseRaises ==
    /\ life.stop = "close"
    /\ life' = [life EXCEPT !.stop = "driver", !.closing = 0, !.closeRaised = TRUE]
    /\ UNCHANGED <<poolVars, reqVars>>
    /\ UNCHANGED <<pipeVars, imgVars, scriptVars>>

\* lines 96-98: the driver stops, which ends every browser it started.
\* stop() returns; no attribute of the pool has been assigned.
StopDriver ==
    /\ life.stop = "driver"
    /\ life.driver = "running"
    /\ connected' = {}
    /\ life' = [life EXCEPT !.stop = "idle", !.stops = @ + 1, !.driver = "stopped"]
    /\ UNCHANGED <<semaphore, lock, browser, launched, reqVars>>
    /\ UNCHANGED <<pipeVars, imgVars, scriptVars>>

\* lines 96-97 on a driver already stopped: the call of line 97 is not
\* guarded, it returns or its error leaves stop(); nothing is left to stop.
StopDriverAgain ==
    /\ life.stop = "driver"
    /\ life.driver = "stopped"
    /\ \E raised \in BOOLEAN :
          life' = [life EXCEPT !.stop = "idle", !.stops = @ + 1,
                               !.driverRaised = @ \/ raised]
    /\ UNCHANGED <<poolVars, reqVars>>
    /\ UNCHANGED <<pipeVars, imgVars, scriptVars>>

Max(a, b) == IF a >= b THEN a ELSE b
Min(a, b) == IF a <= b THEN a ELSE b

\* ------------------------------------------------ the readiness script
\* WAIT_FOR_CONTENT_JS, line 15, in the order of the loop.
SPA_SELECTORS == <<"#root", "#app", "#__next", "#__nuxt", "[data-reactroot]", "main">>

\* WAIT_FOR_CONTENT_JS, line 12 (ms).
maxWait == 20000

\* What document.querySelector(sel) finds: no element, or an element with
\* so many child elements, characters of trimmed innerText and images with
\* a non-empty src.
NoElement == [present |-> FALSE, children |-> 0, text |-> 0, imgs |-> 0]

Element(c, t, i) == [present |-> TRUE, children |-> c, text |-> t, imgs |-> i]

\* Elements around the thresholds of lines 21 and 24: text alone without a
\* child element, a rendered root just below both thresholds, one past the
\* text threshold, one past the image threshold.
Elements == {Element(0, 51, 0), Element(1, 50, 1), Element(1, 51, 0), Element(1, 0, 2)}

\* What the body holds outside the roots: characters and images.
Rests == {[text |-> 0, imgs |-> 0], [text |-> 150, imgs |-> 0],
          [text |-> 600, imgs |-> 0], [text |-> 0, imgs |-> 3]}

\* The documents: at most two of the selectors #root, #app and main match.
Doms ==
    {[roots |-> [i \in 1..Len(SPA_SELECTORS) |->
                    IF i = a THEN x ELSE IF i = b THEN y ELSE NoElement],
      rest |-> r] :
        a \in {1, 2}, b \in {2, 6}, x \in Elements \cup {NoElement},
        y \in Elements \cup {NoElement}, r \in Rests}

RECURSIVE SumRoots(_, _, _)
SumRoots(d, f, i) ==
    IF i = 0 THEN 0 ELSE d.roots[i][f] + SumRoots(d, f, i - 1)

\* line 35: document.body.innerText.trim().length
BodyText(d) == d.rest.text + SumRoots(d, "text", Len(SPA_SELECTORS))

\* line 36: the images of the whole document with a non-empty src.
BodyImgs(d) == d.rest.imgs + SumRoots(d, "imgs", Len(SPA_SELECTORS))

\* Mutant: a root counts by its text or images, rendered children or not.
RootReadyWithoutChildren(el) ==
    /\ el.present
    /\ (el.text > 50 \/ el.imgs > 1)

\* lines 21-24: the element exists, has child elements, and holds more than
\* 50 characters or more than one image.
RootReady(el) ==
    /\ el.present
    /\ el.children > 0
    /\ (el.text > 50 \/ el.imgs > 1)

\* The `for` of line 19 from selector i on: the index of the selector it
\* returns for, 0 when it runs to its end.
RECURSIVE FirstReady(_, _)
FirstReady(d, i) ==
    IF i > Len(SPA_SELECTORS) THEN 0
    ELSE IF RootReady(d.roots[i]) THEN i
    ELSE FirstReady(d, i + 1)

\* line 37: the fallback on the body.
BodyReady(d) == BodyText(d) > 200 \/ BodyImgs(d) > 3

NoProbeResult == [ready |-> FALSE, textLen |-> 0, imgCount |-> 0, source |-> "none"]

\* line 17 true, line 24 true for selector FirstReady: the extra second of
\* line 26 begins.
ProbeRoot ==
    /\ probe.running /\ probe.phase = "poll"
    /\ probe.elapsed < maxWait
    /\ FirstReady(probe.dom, 1) # 0
    /\ probe' = [probe EXCEPT !.phase = "grace", !.found = FirstReady(probe.dom, 1)]
    /\ UNCHANGED <<poolVars, reqVars, pipeVars, imgVars, lifeVars, scroll>>

\* lines 26-29: the second is over, the element is measured again and the
\* script returns ready with the selector.
ProbeGrace ==
    /\ probe.running /\ probe.phase = "grace"
    /\ probe' = [probe EXCEPT
                    !.phase = "returned",
                    !.elapsed = @ + 1000,
                    !.result = [ready |-> TRUE,
                                textLen |-> probe.dom.roots[probe.found].text,
                                imgCount |-> probe.dom.roots[probe.found].imgs,
                                source |-> SPA_SELECTORS[probe.found]]]
    /\ UNCHANGED <<poolVars, reqVars, pipeVars, imgVars, lifeVars, scroll>>

\* lines 35-39: no root was ready, the body is.
ProbeBody ==
    /\ probe.running /\ probe.phase = "poll"
    /\ probe.elapsed < maxWait
    /\ FirstReady(probe.dom, 1) = 0
    /\ BodyReady(probe.dom)
    /\ probe' = [probe EXCEPT
                    !.phase = "returned",
                    !.result = [ready |-> TRUE, textLen |-> BodyText(probe.dom),
                                imgCount |-> BodyImgs(probe.dom), source |-> "body"]]
    /\ UNCHANGED <<poolVars, reqVars, pipeVars, imgVars, lifeVars, scroll>>

\* line 41: nothing was ready, the loop sleeps 500 ms.
ProbeSleep ==
    /\ probe.running /\ probe.phase = "poll"
    /\ probe.elapsed < maxWait
    /\ FirstReady(probe.dom, 1) = 0
    /\ ~BodyReady(probe.dom)
    /\ probe' = [probe EXCEPT !.elapsed = @ + 500, !.polls = @ + 1]
    /\ UNCHANGED <<poolVars, reqVars, pipeVars, imgVars, lifeVars, scroll>>

\* line 17 false: lines 43-45 return not ready without testing anything.
ProbeTimeout ==
    /\ probe.running /\ probe.phase = "poll"
    /\ probe.elapsed >= maxWait
    /\ probe' = [probe EXCEPT
                    !.phase = "returned",
                    !.result = [ready |-> FALSE, textLen |-> BodyText(probe.dom),
                                imgCount |-> BodyImgs(probe.dom), source |-> "timeout"]]
    /\ UNCHANGED <<poolVars, reqVars, pipeVars, imgVars, lifeVars, scroll>>

\* The page renders while the script sleeps: the document is another one;
\* during the extra second the element found stays, its content may change.
DomChange ==
    /\ probe.running /\ probe.phase \in {"poll", "grace"}
    /\ \E d \in Doms \ {probe.dom} :
          /\ probe.phase = "grace" => d.roots[probe.found].present
          /\ probe' = [probe EXCEPT !.dom = d]
    /\ UNCHANGED <<poolVars, reqVars, pipeVars, imgVars, lifeVars, scroll>>

\* --------------------------------------------------- the scroll script
\* window.innerHeight under the viewport every context is created with
\* (browser_pool.py line 58).
viewportHeight == 1080

\* AUTO_SCROLL_JS, line 51: Math.floor(viewportHeight * 0.8)
distance == (viewportHeight * 8) \div 10

\* line 52 (px)
maxHeight == 15000

\* line 53 (ms)
scrollTimeout == 40000

\* document.body.scrollHeight: a page shorter than the viewport, one of a
\* few screens, one just past the cap, a very long one.
ScrollHeights == {500, 3000, 16000, 50000}

\* The time from one run of the interval callback to the next (ms): the
\* 200 ms of line 66, or longer on a busy page.
TickDelays == {200, 10000}

\* Mutant: the loop ends on the page's end or the time budget only.
ScrollEndsNoCap(total, height, elapsed) ==
    \/ total >= height - viewportHeight
    \/ elapsed >= scrollTimeout

\* line 61: the test that ends the loop.
ScrollEnds(total, height, elapsed) ==
    \/ total >= height - viewportHeight
    \/ total >= maxHeight
    \/ elapsed >= scrollTimeout

\* window.scrollBy(0, distance) on a page of that height.
ScrolledBy(position, height) == Min(position + distance, Max(height - viewportHeight, 0))

\* lines 57-60 and line 61 false: the callback reads the height, scrolls,
\* counts, and leaves the timer running.
ScrollTick ==
    /\ scroll.running /\ ~scroll.done
    /\ \E e \in TickDelays :
          /\ ~ScrollEnds(scroll.totalHeight + distance, scroll.scrollHeight, scroll.elapsed + e)
          /\ scroll' = [scroll EXCEPT
                           !.elapsed = @ + e,
                           !.ticks = @ + 1,
                           !.position = ScrolledBy(@, scroll.scrollHeight),
                           !.totalHeight = @ + distance]
    /\ UNCHANGED <<poolVars, reqVars, pipeVars, imgVars, lifeVars, probe>>

\* lines 57-65 with line 61 true: the timer is cleared, the page is
\* scrolled back to the top and the promise resolves.
ScrollLast ==
    /\ scroll.running /\ ~scroll.done
    /\ \E e \in TickDelays :
          /\ ScrollEnds(scroll.totalHeight + distance, scroll.scrollHeight, scroll.elapsed + e)
          /\ scroll' = [scroll EXCEPT
                           !.elapsed = @ + e,
                           !.ticks = @ + 1,
                           !.position = 0,
                           !.totalHeight = @ + distance,
                           !.resets = @ + 1,
                           !.done = TRUE]
    /\ UNCHANGED <<poolVars, reqVars, pipeVars, imgVars, lifeVars, probe>>

\* Between two callbacks the page loads more or drops content: its height
\* is another one, the position stays within it.
PageGrows ==
    /\ scroll.running /\ ~scroll.done
    /\ \E h \in ScrollHeights \ {scroll.scrollHeight} :
          scroll' = [scroll EXCEPT
                       !.scrollHeight = h,
                       !.position = Min(@, Max(h - viewportHeight, 0))]
    /\ UNCHANGED <<poolVars, reqVars, pipeVars, imgVars, lifeVars, probe>>

\* ------------------------------------------------- the overall timeout
\* asyncio.wait_for(_do_capture(), overall_timeout) expires: the task is
\* cancelled at the await it is parked on, once.
Cancelled(p) == outcome[p] = "timeout"

\* ... parked on the semaphore: no slot was taken.
CancelParked(p) ==
    /\ pc[p] = "sem_wait"
    /\ ~Cancelled(p)
    /\ Finish(p, "timeout")
    /\ UNCHANGED <<poolVars, context, slots>>
    /\ UNCHANGED <<pipeVars, imgVars, lifeVars, scriptVars>>

\* ... inside acquire_context after the slot was taken, not holding the
\* lock: CancelledError passes `except Exception` (lines 66, 78), and
\* _do_capture's try/finally has not been entered yet.
CancelInAcquire(p) ==
    /\ pc[p] \in {"ensure_wait", "new_context", "discard_wait"}
    /\ ~Cancelled(p)
    /\ Finish(p, "timeout")
    /\ UNCHANGED <<poolVars, context, slots>>
    /\ UNCHANGED <<pipeVars, imgVars, lifeVars, scriptVars>>

\* ... inside acquire_context while holding the lock: `async with` releases
\* the lock; a close() already under way may or may not have taken effect;
\* line 75 is not reached.
CancelInLock(p) ==
    /\ pc[p] \in {"ensure_close", "ensure_launch", "discard_close"}
    /\ ~Cancelled(p)
    /\ lock' = 0
    /\ connected' \in {connected,
                       IF pc[p] = "ensure_launch" THEN connected
                       ELSE connected \ {browser}}
    /\ Finish(p, "timeout")
    /\ UNCHANGED <<semaphore, browser, launched, context, slots>>
    /\ UNCHANGED <<pipeVars, imgVars, lifeVars, scriptVars>>

\* ... while the lease is in use: the `finally` runs release_context.
CancelInLease(p) ==
    /\ pc[p] = "lease"
    /\ ~Cancelled(p)
    /\ outcome' = [outcome EXCEPT ![p] = "timeout"]
    /\ pc' = [pc EXCEPT ![p] = "release"]
    /\ UNCHANGED <<poolVars, attempt, target, context, slots, response>>
    /\ UNCHANGED <<pipeVars, imgVars, lifeVars, scriptVars>>

\* ... inside release_context, parked on context.close(): the close request
\* is already with the driver, the `finally` releases the slot.
CancelInRelease(p) ==
    /\ pc[p] = "release"
    /\ ~Cancelled(p)
    /\ context' = [context EXCEPT ![p] = 0]
    /\ SemRelease(p)
    /\ Finish(p, "timeout")
    /\ UNCHANGED <<lock, browser, connected, launched>>
    /\ UNCHANGED <<pipeVars, imgVars, lifeVars, scriptVars>>

\* ------------------------------------------- the pipeline, stage by stage
\* One screenshot capture and one image extraction of the same page, each
\* followed await by await from acquire_context to the route's response.
\* acquire_context is one step here; its inside is the pool model above.
Kinds == {"capture", "extract"}

Delays == {0, 3000, 999999}
PostLoads == {0, 5000, 12000}

\* min(total_delay, 10000)
SettleCeiling == 10000

\* Mutant: the sleep takes the larger delay as it is.
CaptureSettleNoCeiling(d, pl) ==
    LET total == Max(d, pl)
    IN  IF total > 0 THEN total ELSE 0

\* screenshot_service.py lines 145-150: the time slept, 0 when no sleep is made.
CaptureSettle(d, pl) ==
    LET total == Max(d, pl)
    IN  IF total > 0 THEN Min(total, SettleCeiling) ELSE 0

\* image_extraction_service.py lines 283-287.
ExtractSettle(pl) == IF pl > 0 THEN Min(pl, SettleCeiling) ELSE 0

SettleDelay(k) == IF k = "capture" THEN CaptureSettle(delay, postLoad) ELSE ExtractSettle(postLoad)

\* _do_capture: the await that follows each await.
CaptureNext(s) ==
    CASE s = "new_page" -> "goto"
      [] s = "goto" -> "load"
      [] s = "load" -> "probe"
      [] s = "probe" -> IF page.ready THEN "scroll" ELSE "idle1"
      [] s = "idle1" -> "reprobe"
      [] s = "reprobe" -> "scroll"
      [] s = "scroll" -> "idle2"
      [] s = "idle2" -> "images"
      [] s = "images" -> IF CaptureSettle(delay, postLoad) > 0 THEN "settle" ELSE "final"
      [] s = "settle" -> "final"

\* _do_extract: the await that follows each await.
ExtractNext(s) ==
    CASE s = "new_page" -> "goto"
      [] s = "goto" -> "load"
      [] s = "load" -> "idle0"
      [] s = "idle0" -> "bodyprobe"
      [] s = "bodyprobe" -> "scroll"
      [] s = "scroll" -> "idle2"
      [] s = "idle2" -> "images"
      [] s = "images" -> IF ExtractSettle(postLoad) > 0 THEN "settle" ELSE "final"
      [] s = "settle" -> "final"

NextStage(k, s) == IF k = "capture" THEN CaptureNext(s) ELSE ExtractNext(s)

\* What each await runs.
Operation(s) ==
    CASE s = "goto" -> "navigate"
      [] s = "load" -> "load"
      [] s \in {"idle0", "idle1", "idle2"} -> "networkidle"
      [] s \in {"probe", "reprobe"} -> "content_probe"
      [] s = "bodyprobe" -> "body_probe"
      [] s = "scroll" -> "scroll"
      [] s = "images" -> "images"
      [] s = "settle" -> "settle"

\* settings.screenshot_page_navigation_timeout
NavigationTimeout == 60000

\* _do_capture: the time budget of each stage (ms): the timeout argument, or
\* the budget written in the script evaluated.
CaptureBudget(s) ==
    CASE s = "goto" -> NavigationTimeout
      [] s = "load" -> 30000
      [] s \in {"probe", "reprobe"} -> 20000
      [] s \in {"idle1", "idle2"} -> 10000
      [] s = "scroll" -> 40000
      [] s = "images" -> 3000
      [] s = "settle" -> CaptureSettle(delay, postLoad)

\* Mutant: the network-idle wait after the scroll gets the budget of the
\* first one.
ExtractBudgetLongIdle(s) ==
    CASE s = "goto" -> NavigationTimeout
      [] s = "load" -> 30000
      [] s \in {"idle0", "idle2"} -> 15000
      [] s = "bodyprobe" -> 10000
      [] s = "scroll" -> 40000
      [] s = "images" -> 3000
      [] s = "settle" -> ExtractSettle(postLoad)

\* _do_extract: the time budget of each stage (ms).
ExtractBudget(s) ==
    CASE s = "goto" -> NavigationTimeout
      [] s = "load" -> 30000
      [] s = "idle0" -> 15000
      [] s = "bodyprobe" -> 10000
      [] s = "idle2" -> 10000
      [] s = "scroll" -> 40000
      [] s = "images" -> 3000
      [] s = "settle" -> ExtractSettle(postLoad)

Budget(k, s) == IF k = "capture" THEN CaptureBudget(s) ELSE ExtractBudget(s)

\* The awaits of the readiness pipeline.
PipelineStages == {"goto", "load", "idle0", "probe", "idle1", "reprobe", "bodyprobe",
                   "scroll", "idle2", "images", "settle"}

\* The awaits wrapped in `try: ... except Exception:` and so advisory.
Guarded(s) == s \in {"load", "idle0", "idle1", "idle2"}

\* Whether the page lets a wait end in time.
WaitSucceeds(s) ==
    CASE s = "load" -> page.load
      [] s \in {"idle0", "idle1", "idle2"} -> page.idle
      [] OTHER -> TRUE

Ran(k, s, ok) == Append(trace[k], [op |-> Operation(s), budget |-> Budget(k, s), ok |-> ok])

\* Mutant: the service is called whatever validate_url says.
ValidateOkUnchecked(k) ==
    /\ stage[k] = "validate"
    /\ stage' = [stage EXCEPT ![k] = "acquire"]
    /\ UNCHANGED <<job, trace, holds, permits, closeRaised, result, reply>>
    /\ UNCHANGED <<poolVars, reqVars, imgVars, lifeVars, scriptVars>>

\* The route: validate_url accepts the URL, the service is called.
ValidateOk(k) ==
    /\ stage[k] = "validate"
    /\ ValidateUrl(url) = "valid"
    /\ stage' = [stage EXCEPT ![k] = "acquire"]
    /\ UNCHANGED <<job, trace, holds, permits, closeRaised, result, reply>>
    /\ UNCHANGED <<poolVars, reqVars, imgVars, lifeVars, scriptVars>>

\* The route: validate_url rejects the URL, the route returns.
ValidateReject(k) ==
    /\ stage[k] = "validate"
    /\ ValidateUrl(url) # "valid"
    /\ stage' = [stage EXCEPT ![k] = "done"]
    /\ result' = [result EXCEPT ![k] = "invalid_url"]
    /\ reply' = [reply EXCEPT ![k] = InvalidUrlResponse(k, ValidateUrl(url))]
    /\ UNCHANGED <<job, trace, holds, permits, closeRaised>>
    /\ UNCHANGED <<poolVars, reqVars, imgVars, lifeVars, scriptVars>>

\* acquire_context returns a context.
PipeAcquire(k) ==
    /\ stage[k] = "acquire"
    /\ permits > 0
    /\ permits' = permits - 1
    /\ holds' = [holds EXCEPT ![k] = TRUE]
    /\ stage' = [stage EXCEPT ![k] = "new_page"]
    /\ UNCHANGED <<job, trace, closeRaised, result, reply>>
    /\ UNCHANGED <<poolVars, reqVars, imgVars, lifeVars, scriptVars>>

\* acquire_context raises, having given its slot back.
PipeAcquireFail(k) ==
    /\ stage[k] = "acquire"
    /\ permits > 0
    /\ stage' = [stage EXCEPT ![k] = "done"]
    /\ result' = [result EXCEPT ![k] = "context_error"]
    /\ reply' = [reply EXCEPT ![k] = Respond(k, "context_error")]
    /\ UNCHANGED <<job, trace, holds, permits, closeRaised>>
    /\ UNCHANGED <<poolVars, reqVars, imgVars, lifeVars, scriptVars>>

\* context.new_page() returns.
NewPage(k) ==
    /\ stage[k] = "new_page"
    /\ stage' = [stage EXCEPT ![k] = NextStage(k, "new_page")]
    /\ UNCHANGED <<job, trace, holds, permits, closeRaised, result, reply>>
    /\ UNCHANGED <<poolVars, reqVars, imgVars, lifeVars, scriptVars>>

\* context.new_page() raises: the `finally` runs release_context.
NewPageFail(k) ==
    /\ stage[k] = "new_page"
    /\ result' = [result EXCEPT ![k] = "page_error"]
    /\ stage' = [stage EXCEPT ![k] = "release"]
    /\ UNCHANGED <<job, trace, holds, permits, closeRaised, reply>>
    /\ UNCHANGED <<poolVars, reqVars, imgVars, lifeVars, scriptVars>>

\* A stage returns: the next one starts.
StageReturns(k) ==
    /\ stage[k] \in PipelineStages
    /\ WaitSucceeds(stage[k])
    /\ trace' = [trace EXCEPT ![k] = Ran(k, stage[k], TRUE)]
    /\ stage' = [stage EXCEPT ![k] = NextStage(k, stage[k])]
    /\ UNCHANGED <<job, holds, permits, closeRaised, result, reply>>
    /\ UNCHANGED <<poolVars, reqVars, imgVars, lifeVars, scriptVars>>

\* A guarded wait times out or raises: the handler logs or passes, the next
\* stage starts.
StageSwallowed(k) ==
    /\ stage[k] \in PipelineStages
    /\ Guarded(stage[k])
    /\ ~WaitSucceeds(stage[k])
    /\ trace' = [trace EXCEPT ![k] = Ran(k, stage[k], FALSE)]
    /\ stage' = [stage EXCEPT ![k] = NextStage(k, stage[k])]
    /\ UNCHANGED <<job, holds, permits, closeRaised, result, reply>>
    /\ UNCHANGED <<poolVars, reqVars, imgVars, lifeVars, scriptVars>>

\* Mutant: a failed page.goto is tried once more.
StageRaisesRetriesNavigation(k) ==
    /\ stage[k] \in PipelineStages \ {"settle"}
    /\ ~Guarded(stage[k])
    /\ trace' = [trace EXCEPT ![k] = Ran(k, stage[k], FALSE)]
    /\ IF stage[k] = "goto" /\ trace[k] = <<>>
       THEN UNCHANGED <<result, stage>>
       ELSE /\ result' = [result EXCEPT ![k] = "page_error"]
            /\ stage' = [stage EXCEPT ![k] = "release"]
    /\ UNCHANGED <<job, holds, permits, closeRaised, reply>>
    /\ UNCHANGED <<poolVars, reqVars, imgVars, lifeVars, scriptVars>>

\* An await outside any try/except raises (page.goto, page.evaluate): the
\* exception leaves the body through the `finally`.  asyncio.sleep does not
\* raise.
StageRaises(k) ==
    /\ stage[k] \in PipelineStages \ {"settle"}
    /\ ~Guarded(stage[k])
    /\ trace' = [trace EXCEPT ![k] = Ran(k, stage[k], FALSE)]
    /\ result' = [result EXCEPT ![k] = "page_error"]
    /\ stage' = [stage EXCEPT ![k] = "release"]
    /\ UNCHANGED <<job, holds, permits, closeRaised, reply>>
    /\ UNCHANGED <<poolVars, reqVars, imgVars, lifeVars, scriptVars>>

\* Mutant: the capture uploads the image before its `finally` runs.
FinalOkUploadsInline(k) ==
    /\ stage[k] = "final"
    /\ result' = [result EXCEPT ![k] = "ok"]
    /\ stage' = [stage EXCEPT ![k] = IF k = "capture" THEN "upload" ELSE "release"]
    /\ UNCHANGED <<job, trace, holds, permits, closeRaised, reply>>
    /\ UNCHANGED <<poolVars, reqVars, imgVars, lifeVars, scriptVars>>

\* page.screenshot (capture) / the extraction query and transform (extract)
\* return.
FinalOk(k) ==
    /\ stage[k] = "final"
    /\ result' = [result EXCEPT ![k] = "ok"]
    /\ stage' = [stage EXCEPT ![k] = "release"]
    /\ UNCHANGED <<job, trace, holds, permits, closeRaised, reply>>
    /\ UNCHANGED <<poolVars, reqVars, imgVars, lifeVars, scriptVars>>

\* ... or raise.
FinalFail(k) ==
    /\ stage[k] = "final"
    /\ result' = [result EXCEPT ![k] = "page_error"]
    /\ stage' = [stage EXCEPT ![k] = "release"]
    /\ UNCHANGED <<job, trace, holds, permits, closeRaised, reply>>
    /\ UNCHANGED <<poolVars, reqVars, imgVars, lifeVars, scriptVars>>

\* The asyncio.wait_for around page.screenshot expires: asyncio.TimeoutError
\* leaves the body.
FinalTimeout(k) ==
    /\ k = "capture"
    /\ stage[k] = "final"
    /\ result' = [result EXCEPT ![k] = "capture_timeout"]
    /\ stage' = [stage EXCEPT ![k] = "release"]
    /\ UNCHANGED <<job, trace, holds, permits, closeRaised, reply>>
    /\ UNCHANGED <<poolVars, reqVars, imgVars, lifeVars, scriptVars>>

\* Mutant: the cancellation ends the body without running the `finally`.
PipeCancelNoFinally(k) ==
    /\ stage[k] \in PipelineStages \cup {"new_page", "final"}
    /\ result' = [result EXCEPT ![k] = "timeout"]
    /\ stage' = [stage EXCEPT ![k] = "done"]
    /\ reply' = [reply EXCEPT ![k] = Respond(k, "timeout")]
    /\ UNCHANGED <<job, trace, holds, permits, closeRaised>>
    /\ UNCHANGED <<poolVars, reqVars, imgVars, lifeVars, scriptVars>>

\* The overall timeout cancels the body at one of its awaits: the `finally`
\* runs release_context.
PipeCancel(k) ==
    /\ stage[k] \in PipelineStages \cup {"new_page", "final"}
    /\ result' = [result EXCEPT ![k] = "timeout"]
    /\ stage' = [stage EXCEPT ![k] = "release"]
    /\ UNCHANGED <<job, trace, holds, permits, closeRaised, reply>>
    /\ UNCHANGED <<poolVars, reqVars, imgVars, lifeVars, scriptVars>>

\* The slot goes back and the body's result or exception reaches the route.
PipeFinish(k, res) ==
    /\ permits' = permits + 1
    /\ holds' = [holds EXCEPT ![k] = FALSE]
    /\ result' = [result EXCEPT ![k] = res]
    /\ IF k = "capture" /\ res = "ok"
       THEN /\ stage' = [stage EXCEPT ![k] = "upload"]
            /\ UNCHANGED reply
       ELSE /\ stage' = [stage EXCEPT ![k] = "done"]
            /\ reply' = [reply EXCEPT ![k] = Respond(k, res)]

\* release_context: context.close() returns, the `finally` releases the slot.
PipeReleaseClosed(k) ==
    /\ stage[k] = "release"
    /\ PipeFinish(k, result[k])
    /\ UNCHANGED <<job, trace, closeRaised>>
    /\ UNCHANGED <<poolVars, reqVars, imgVars, lifeVars, scriptVars>>

\* Mutant: the close error propagates and the slot is not released.
PipeReleaseRaisedNoFinally(k) ==
    /\ stage[k] = "release"
    /\ closeRaised' = [closeRaised EXCEPT ![k] = TRUE]
    /\ stage' = [stage EXCEPT ![k] = "done"]
    /\ result' = [result EXCEPT ![k] = "close_error"]
    /\ reply' = [reply EXCEPT ![k] = Respond(k, "close_error")]
    /\ UNCHANGED <<job, trace, holds, permits>>
    /\ UNCHANGED <<poolVars, reqVars, imgVars, lifeVars, scriptVars>>

\* release_context: context.close() raises, the error is logged, the
\* `finally` releases the slot.
PipeReleaseRaised(k) ==
    /\ stage[k] = "release"
    /\ closeRaised' = [closeRaised EXCEPT ![k] = TRUE]
    /\ PipeFinish(k, result[k])
    /\ UNCHANGED <<job, trace>>
    /\ UNCHANGED <<poolVars, reqVars, imgVars, lifeVars, scriptVars>>

\* The overall timeout cancels the body while release_context awaits
\* context.close(): the `finally` releases the slot.
PipeCancelRelease(k) ==
    /\ stage[k] = "release"
    /\ result[k] # "timeout"
    /\ PipeFinish(k, "timeout")
    /\ UNCHANGED <<job, trace, closeRaised>>
    /\ UNCHANGED <<poolVars, reqVars, imgVars, lifeVars, scriptVars>>

\* The route's `try` block ends with `ended` after the upload call.
UploadEnds(k, ended) ==
    /\ k = "capture"
    /\ stage[k] = "upload"
    /\ stage' = [stage EXCEPT ![k] = "done"]
    /\ result' = [result EXCEPT ![k] = ended]
    /\ reply' = [reply EXCEPT ![k] = Respond(k, ended)]
    /\ UNCHANGED <<job, trace, holds, permits, closeRaised>>
    /\ UNCHANGED <<poolVars, reqVars, imgVars, lifeVars, scriptVars>>

\* storage_service.upload_screenshot returns the stored object.
UploadOk(k) == UploadEnds(k, "ok")

\* The upload raises (bucket error, credentials).
UploadFail(k) == UploadEnds(k, "upload_error")

\* The asyncio.wait_for around the upload expires.
UploadTimeout(k) == UploadEnds(k, "upload_timeout")

\* ------------------------------------------------- the image transform
\* An image as the page query describes it.  `src` is the URL split after
\* its scheme: <<>> is the empty string, <<"data:", ..>> a data URI.
Srcs == {<<>>, <<"data:", "a">>, <<"https:", "a">>, <<"https:", "b">>, <<"https:", "c">>}

Image(src, w, h, y, logo, header, product) ==
    [src |-> src, width |-> w, height |-> h, y |-> y,
     containsLogo |-> logo, inHeader |-> header, containsProductKeywords |-> product]

\* A few images of every sort, to build lists from.
SampleImages ==
    { Image(<<"https:", "a">>, 1, 1, 0, FALSE, FALSE, FALSE),
      Image(<<"https:", "b">>, 50, 50, 300, FALSE, FALSE, FALSE),
      Image(<<"data:", "a">>, 150, 150, 300, FALSE, FALSE, FALSE),
      Image(<<>>, 150, 120, 300, FALSE, FALSE, FALSE),
      Image(<<"https:", "c">>, 150, 150, 300, FALSE, FALSE, FALSE),
      Image(<<"https:", "a">>, 1000, 500, 0, FALSE, FALSE, TRUE),
      Image(<<"https:", "b">>, 200, 50, 0, TRUE, TRUE, FALSE),
      Image(<<"https:", "c">>, 400, 300, 600, FALSE, FALSE, TRUE) }

\* Images at the thresholds of the classification rules.
BoundaryWidths == {1, 99, 100, 251, 299, 300, 399, 400, 960, 961}
BoundaryHeights == {1, 99, 100, 199, 200, 399, 400, 401}
BoundaryYs == {0, 160, 216}

BoundaryImages ==
    { Image(<<"https:", "a">>, w, h, y, l, hd, pr) :
        w \in BoundaryWidths, h \in BoundaryHeights, y \in BoundaryYs,
        l \in BOOLEAN, hd \in BOOLEAN, pr \in BOOLEAN }

ImageLists ==
    { <<i>> : i \in BoundaryImages }
        \cup UNION { [1..n -> SampleImages] : n \in 0..MaxListLen }

\* The viewport the pool gives every context, and a narrow one
\* (_classify_images takes any page context).
PageContexts ==
    { [viewportWidth |-> 1920, viewportHeight |-> 1080],
      [viewportWidth |-> 500, viewportHeight |-> 800] }

MinSizes == {0, 100}
MaxImagesValues == {1, 2, 100}

StartsWithData(src) == src # <<>> /\ src[1] = "data:"

\* Mutant: data URIs pass.
KeptWithData(img, min_width, min_height) ==
    IF img.width < min_width \/ img.height < min_height THEN FALSE
    ELSE IF img.width = 1 /\ img.height = 1 THEN FALSE
    ELSE IF img.src = <<>> THEN FALSE
    ELSE TRUE

\* _filter_images, the loop body: FALSE where it says `continue`.
Kept(img, min_width, min_height) ==
    IF img.width < min_width \/ img.height < min_height THEN FALSE
    ELSE IF img.width = 1 /\ img.height = 1 THEN FALSE
    ELSE IF img.src = <<>> \/ StartsWithData(img.src) THEN FALSE
    ELSE TRUE

RECURSIVE FilterImages(_, _, _)
FilterImages(images, min_width, min_height) ==
    IF images = <<>> THEN <<>>
    ELSE LET rest == FilterImages(Tail(images), min_width, min_height)
         IN  IF Kept(Head(images), min_width, min_height)
             THEN <<Head(images)>> \o rest
             ELSE rest

\* Mutant: the logo rule is tried before the hero rule.
ClassificationLogoFirst(img, vw, vh) ==
    IF img.containsLogo /\ img.inHeader /\ img.width < 300 THEN "logo"
    ELSE IF 5 * img.y < vh /\ 2 * img.width > vw /\ img.height > 400 THEN "hero"
    ELSE IF img.width >= 300 /\ img.height >= 200 /\ img.containsProductKeywords
        THEN "product"
    ELSE IF img.width < 100 /\ img.height < 100 THEN "icon"
    ELSE IF 100 <= img.width /\ img.width < 400 /\ 100 <= img.height /\ img.height < 400
        THEN "thumbnail"
    ELSE "content"

\* _classify_images, the if/elif chain (y < vh * 0.2 and width > vw * 0.5 in
\* whole numbers).
Classification(img, vw, vh) ==
    IF 5 * img.y < vh /\ 2 * img.width > vw /\ img.height > 400 THEN "hero"
    ELSE IF img.containsLogo /\ img.inHeader /\ img.width < 300 THEN "logo"
    ELSE IF img.width >= 300 /\ img.height >= 200 /\ img.containsProductKeywords
        THEN "product"
    ELSE IF img.width < 100 /\ img.height < 100 THEN "icon"
    ELSE IF 100 <= img.width /\ img.width < 400 /\ 100 <= img.height /\ img.height < 400
        THEN "thumbnail"
    ELSE "content"

\* _classify_images: one output record per image, in order.
ClassifyImages(images, page_context) ==
    [i \in 1..Len(images) |->
        [src |-> images[i].src, width |-> images[i].width, height |-> images[i].height,
         y |-> images[i].y,
         classification |-> Classification(images[i], page_context.viewportWidth,
                                           page_context.viewportHeight)]]

\* filtered[:max_images]
Take(seq, n) == SubSeq(seq, 1, Min(n, Len(seq)))

NoExtraction == [done |-> FALSE]

\* Mutant: the limit is applied to the raw list, before the filter.
ExtractTransformLimitsFirst ==
    /\ ~extraction.done
    /\ LET filtered == FilterImages(Take(allImages, maxImages), minWidth, minHeight)
           limited == filtered
           classified == ClassifyImages(limited, pageContext)
       IN  transform' = [transform EXCEPT !.extraction =
                         [done |-> TRUE,
                          filtered |-> filtered,
                          limited |-> limited,
                          images |-> classified,
                          filtered_count |-> Len(allImages) - Len(filtered),
                          totalImages |-> Len(classified)]]
    /\ UNCHANGED <<poolVars, reqVars, pipeVars, lifeVars, scriptVars>>

\* Mutant: the images cut by the limit are counted as filtered out.
ExtractTransformCountsCut ==
    /\ ~extraction.done
    /\ LET filtered == FilterImages(allImages, minWidth, minHeight)
           limited == Take(filtered, maxImages)
           classified == ClassifyImages(limited, pageContext)
       IN  transform' = [transform EXCEPT !.extraction =
                         [done |-> TRUE,
                          filtered |-> filtered,
                          limited |-> limited,
                          images |-> classified,
                          filtered_count |-> Len(allImages) - Len(limited),
                          totalImages |-> Len(classified)]]
    /\ UNCHANGED <<poolVars, reqVars, pipeVars, lifeVars, scriptVars>>

\* _do_extract after the page query: filter, limit, classify, count.
ExtractTransform ==
    /\ ~extraction.done
    /\ LET filtered == FilterImages(allImages, minWidth, minHeight)
           limited == Take(filtered, maxImages)
           classified == ClassifyImages(limited, pageContext)
       IN  transform' = [transform EXCEPT !.extraction =
                         [done |-> TRUE,
                          filtered |-> filtered,
                          limited |-> limited,
                          images |-> classified,
                          filtered_count |-> Len(allImages) - Len(filtered),
                          totalImages |-> Len(classified)]]
    /\ UNCHANGED <<poolVars, reqVars, pipeVars, lifeVars, scriptVars>>

\* ------------------------------------------------------ specification
\* BrowserPool.__init__ followed by start(): one browser launched, all
\* slots free; every request has been validated and calls acquire_context.
PoolInit ==
    /\ semaphore = MaxConcurrent
    /\ lock = 0
    /\ browser = 1
    /\ connected = {1}
    /\ launched = 1
    /\ pc = [p \in Requests |-> "sem_wait"]
    /\ attempt = [p \in Requests |-> 0]
    /\ target = [p \in Requests |-> 0]
    /\ context = [p \in Requests |-> 0]
    /\ slots = [p \in Requests |-> 0]
    /\ outcome = [p \in Requests |-> "none"]
    /\ response = [p \in Requests |-> NoResponse]

\* A capture and an extraction of some page: both routes have received the
\* request.
PipeStart(pg, u, d, pl) ==
    /\ job = [page |-> pg, url |-> u, delay |-> d, postLoad |-> pl]
    /\ stage = [k \in Kinds |-> "validate"]
    /\ trace = [k \in Kinds |-> <<>>]
    /\ holds = [k \in Kinds |-> FALSE]
    /\ permits = MaxConcurrent
    /\ closeRaised = [k \in Kinds |-> FALSE]
    /\ result = [k \in Kinds |-> "none"]
    /\ reply = [k \in Kinds |-> NoResponse]

Pages == [load : BOOLEAN, idle : BOOLEAN, ready : BOOLEAN]

\* The page query of an extraction has returned `images`.
ImageStart(images, mw, mh, mx, ctx) ==
    /\ transform = [allImages |-> images, minWidth |-> mw, minHeight |-> mh,
                    maxImages |-> mx, pageContext |-> ctx, extraction |-> NoExtraction]

PipeIdle ==
    PipeStart([load |-> TRUE, idle |-> TRUE, ready |-> TRUE],
              [scheme |-> "https", host |-> "public", userinfo |-> FALSE], 0, 0)

ImageIdle == ImageStart(<<>>, 100, 100, 100, [viewportWidth |-> 1920, viewportHeight |-> 1080])

\* start() has run and stop() has not been called.
LifeIdle ==
    life = [driver |-> "running", stop |-> "idle", stops |-> 0, closing |-> 0,
            closeRaised |-> FALSE, driverRaised |-> FALSE]

\* No script is being evaluated.
ScriptIdle ==
    /\ probe = [running |-> FALSE]
    /\ scroll = [running |-> FALSE]

Init == PoolInit /\ PipeIdle /\ ImageIdle /\ LifeIdle /\ ScriptIdle

Next ==
    \/ BrowserCrash
    \/ \E p \in Requests :
        \/ SemAcquire(p)
        \/ EnsureUsable(p)
        \/ EnsureRelaunch(p)
        \/ EnsureClose(p)
        \/ EnsureLaunchOk(p)
        \/ EnsureLaunchFail(p)
        \/ NewContextOk(p)
        \/ NewContextRetry(p)
        \/ NewContextFail(p)
        \/ DiscardNone(p)
        \/ DiscardEnter(p)
        \/ DiscardClose(p)
        \/ LeaseOk(p)
        \/ LeaseFail(p)
        \/ ReleaseContext(p)
        \/ CancelParked(p)
        \/ CancelInAcquire(p)
        \/ CancelInLock(p)
        \/ CancelInLease(p)
        \/ CancelInRelease(p)

\* The pool under concurrent requests.
Spec == Init /\ [][Next]_vars

PipeInit ==
    /\ PoolInit
    /\ \E pg \in Pages, u \in Urls, d \in Delays, pl \in PostLoads : PipeStart(pg, u, d, pl)
    /\ ImageIdle
    /\ LifeIdle
    /\ ScriptIdle

PipeNext ==
    \E k \in Kinds :
        \/ ValidateOk(k)
        \/ ValidateReject(k)
        \/ PipeAcquire(k)
        \/ PipeAcquireFail(k)
        \/ NewPage(k)
        \/ NewPageFail(k)
        \/ StageReturns(k)
        \/ StageSwallowed(k)
        \/ StageRaises(k)
        \/ FinalOk(k)
        \/ FinalFail(k)
        \/ FinalTimeout(k)
        \/ PipeCancel(k)
        \/ PipeReleaseClosed(k)
        \/ PipeReleaseRaised(k)
        \/ PipeCancelRelease(k)
        \/ UploadOk(k)
        \/ UploadFail(k)
        \/ UploadTimeout(k)

\* One capture and one extraction, stage by stage.
PipeSpec == PipeInit /\ [][PipeNext]_vars

ImageInit ==
    /\ PoolInit
    /\ PipeIdle
    /\ \E images \in ImageLists, mw \in MinSizes, mh \in MinSizes,
          mx \in MaxImagesValues, ctx \in PageContexts :
            ImageStart(images, mw, mh, mx, ctx)
    /\ LifeIdle
    /\ ScriptIdle

ImageNext == ExtractTransform

\* The transform of one extracted image list.
ImageSpec == ImageInit /\ [][ImageNext]_vars

\* The service shuts down with two requests on their way: the pool was
\* started (one browser, the driver running) or never was (BrowserPool()
\* as constructed); the other requests have been answered.
LifeInit ==
    /\ semaphore = MaxConcurrent
    /\ lock = 0
    /\ \E started \in BOOLEAN :
          /\ browser = IF started THEN 1 ELSE 0
          /\ connected = IF started THEN {1} ELSE {}
          /\ launched = IF started THEN 1 ELSE 0
          /\ life = [driver |-> IF started THEN "running" ELSE "none", stop |-> "idle",
                     stops |-> 0, closing |-> 0, closeRaised |-> FALSE,
                     driverRaised |-> FALSE]
    /\ pc = [p \in Requests |-> IF p \in {1, 2} THEN "sem_wait" ELSE "done"]
    /\ attempt = [p \in Requests |-> 0]
    /\ target = [p \in Requests |-> 0]
    /\ context = [p \in Requests |-> 0]
    /\ slots = [p \in Requests |-> 0]
    /\ outcome = [p \in Requests |-> IF p \in {1, 2} THEN "none" ELSE "ok"]
    /\ response = [p \in Requests |->
                      IF p \in {1, 2} THEN NoResponse ELSE RouteResponse("ok")]
    /\ PipeIdle
    /\ ImageIdle
    /\ ScriptIdle

LifeNext ==
    \/ BrowserCrash
    \/ StopBegin
    \/ StopNoBrowser
    \/ StopNothing
    \/ StopCloseOk
    \/ StopCloseRaises
    \/ StopDriver
    \/ StopDriverAgain
    \/ \E p \in Requests :
        \/ SemAcquire(p)
        \/ EnsureUsable(p)
        \/ EnsureRelaunch(p)
        \/ EnsureClose(p)
        \/ EnsureLaunchOk(p)
        \/ EnsureLaunchFail(p)
        \/ NewContextOk(p)
        \/ NewContextRetry(p)
        \/ NewContextFail(p)
        \/ DiscardNone(p)
        \/ DiscardEnter(p)
        \/ DiscardClose(p)
        \/ LeaseOk(p)
        \/ LeaseFail(p)
        \/ ReleaseContext(p)
        \/ CancelParked(p)
        \/ CancelInAcquire(p)
        \/ CancelInLock(p)
        \/ CancelInLease(p)
        \/ CancelInRelease(p)

\* The pool under requests and stop().
LifeSpec == LifeInit /\ [][LifeNext]_vars

\* page.evaluate(WAIT_FOR_CONTENT_JS) on a document.
ProbeInit ==
    /\ PoolInit
    /\ PipeIdle
    /\ ImageIdle
    /\ LifeIdle
    /\ \E d \in Doms :
          probe = [running |-> TRUE, dom |-> d, elapsed |-> 0, polls |-> 0,
                   phase |-> "poll", found |-> 0, result |-> NoProbeResult]
    /\ scroll = [running |-> FALSE]

ProbeNext ==
    \/ ProbeRoot
    \/ ProbeGrace
    \/ ProbeBody
    \/ ProbeSleep
    \/ ProbeTimeout
    \/ DomChange

ProbeSpec == ProbeInit /\ [][ProbeNext]_vars

\* page.evaluate(AUTO_SCROLL_JS) on a page at its top.
ScrollInit ==
    /\ PoolInit
    /\ PipeIdle
    /\ ImageIdle
    /\ LifeIdle
    /\ probe = [running |-> FALSE]
    /\ \E h \in ScrollHeights :
          scroll = [running |-> TRUE, scrollHeight |-> h, totalHeight |-> 0, ticks |-> 0,
                    elapsed |-> 0, position |-> 0, resets |-> 0, done |-> FALSE]

ScrollNext ==
    \/ ScrollTick
    \/ ScrollLast
    \/ PageGrows

\* setInterval runs the callback again and again until clearInterval.
ScrollSpec == ScrollInit /\ [][ScrollNext]_vars /\ WF_vars(ScrollTick \/ ScrollLast)

\* ---------------------------------------------------------------- claims
Leased == {p \in Requests : context[p] # 0}
SlotHolders == {p \in Requests : slots[p] > 0}

\* C1: at most MaxConcurrent slots are held and at most MaxConcurrent leased
\* contexts are open in every reachable state; while MaxConcurrent leases are
\* outstanding, every other caller is still parked on the semaphore (or has
\* ended), so one more acquire_context returns only after a release.
C1_AtMostNSlots ==
    /\ MaxConcurrent - semaphore <= MaxConcurrent
    /\ Cardinality(SlotHolders) <= MaxConcurrent
    /\ Cardinality(Leased) <= MaxConcurrent
    /\ Cardinality(Leased) = MaxConcurrent =>
          \A p \in Requests \ Leased : pc[p] \in {"sem_wait", "done"}

\* N leases are outstanding and one more caller is parked on the semaphore.
C1_Witness ==
    /\ Cardinality(Leased) = MaxConcurrent
    /\ \E p \in Requests : pc[p] = "sem_wait"

\* C2: a request that has completed holds no slot and no context, however it
\* ended; once all requests have completed, all slots are free again.
C2_NothingHeldAfterCompletion ==
    /\ \A p \in Requests : pc[p] = "done" => slots[p] = 0 /\ context[p] = 0
    /\ (\A p \in Requests : pc[p] = "done") => semaphore = MaxConcurrent

\* C4: when context creation fails on the first attempt and on the retry, the
\* call fails and the slot it took is back exactly once: the caller holds no
\* slot, and the semaphore counts exactly the slots still held (no leak, no
\* double release).
C4_DoubleFailureReleasesOnce ==
    /\ \A p \in Requests : slots[p] \in {0, 1}
    /\ semaphore = MaxConcurrent - Cardinality(SlotHolders)
    /\ \A p \in Requests :
          pc[p] = "done" /\ outcome[p] = "context_error" =>
              /\ slots[p] = 0
              /\ context[p] = 0
              /\ response[p].status = 500

\* A call has ended with both creation attempts failed.
C4_Witness ==
    \E p \in Requests : pc[p] = "done" /\ outcome[p] = "context_error" /\ slots[p] = 0

InGuard(p) == pc[p] \in {"ensure_close", "ensure_launch", "discard_close"}

\* C5: at most one caller is inside the check-and-relaunch section (or the
\* discard section) at any time, it holds the lock, and so at most one launch
\* is in progress.
C5_OneRelaunchAtATime ==
    /\ Cardinality({p \in Requests : InGuard(p)}) <= 1
    /\ \A p \in Requests : InGuard(p) => lock = p
    /\ Cardinality({p \in Requests : pc[p] = "ensure_launch"}) <= 1

\* One caller is launching while another waits on the guard.
C5_Witness ==
    \E p, q \in Requests :
        /\ pc[p] = "ensure_launch"
        /\ pc[q] \in {"ensure_wait", "discard_wait"}

\* C6: callers that saw the same dead browser do not launch duplicates: a
\* caller that has waited on the guard never discards a connected browser
\* other than the one its own context creation failed on (the one relaunched
\* meanwhile), it reuses it.
C6_NoDuplicateRelaunch ==
    \A p \in Requests :
        pc[p] = "discard_close" => browser = target[p] \/ browser \notin connected

\* C7: one acquire_context call makes at most two creation attempts and at
\* most one discard: the discard happens only after the first attempt, never
\* after the second.
C7_AtMostOneRetry ==
    \A p \in Requests :
        /\ attempt[p] \in {0, 1}
        /\ pc[p] \in {"discard_wait", "discard_close"} => attempt[p] = 0

\* A call is making its second creation attempt, after one discard.
C7_Witness ==
    \E p \in Requests : pc[p] = "new_context" /\ attempt[p] = 1 /\ target[p] # 0

\* The requests neither parked on the semaphore nor ended: the ones inside
\* acquire_context, leasing, or releasing.
InFlight == {p \in Requests : pc[p] \notin {"sem_wait", "done"}}

\* C18: a caller parked on the semaphore is never stranded: when nobody is
\* in flight to release a slot, a slot is free for it, so that under fair
\* scheduling it obtains one; the pool's capacity is not lost for good.
C18_ParkedCallerNotStranded ==
    (InFlight = {} /\ \E p \in Requests : pc[p] = "sem_wait") => semaphore > 0

\* C24: the pool does not close a connected browser while a caller other
\* than the closing one holds a lease on it.
C24_NoCloseUnderLease ==
    \A p, q \in Requests :
        (p # q /\ pc[p] = "discard_close" /\ browser \in connected)
            => context[q] # browser

\* ----------------------------------------------- claims on the life cycle
\* stop() has returned or raised at least once and none is under way.
Stopped == life.stops >= 1 /\ life.stop = "idle"

\* C23: stop() is idempotent and best-effort.  Once a call of stop() has
\* completed, no browser is live and the driver is not running, and a step
\* of a later call of stop() changes neither the handle, the live browsers,
\* the limiter, the guard nor any request; an error of close() is dropped:
\* the call that met it goes on to stop the driver.
C23_StopIdempotent ==
    /\ [](life.stops >= 1 => life.driver # "running" /\ connected = {})
    /\ [](life.closeRaised /\ life.stop = "idle" => life.driver = "stopped")
    /\ [][life.stops >= 1 /\ life' # life => UNCHANGED <<poolVars, reqVars>>]_vars

\* stop() has completed twice, the browser's close() having raised.
C23_Witness == life.stops = 2 /\ life.stop = "idle" /\ life.closeRaised /\ browser # 0

\* C28: after stop() has completed the handle is absent.
C28_HandleAbsentAfterStop == Stopped => browser = 0

\* C27: a request is closing or launching a browser only while it holds
\* the guard and only after finding the handle absent or disconnected.
\* From the liveness check, a present and connected browser leaves handle,
\* live browsers, launch count and guard as they are and goes straight to
\* context creation on that browser; an absent or disconnected one is
\* never handed to context creation but takes the guard for the relaunch.
\* The launch returning normally hands a present, connected handle to
\* context creation.
C27_RelaunchIffUnusable ==
    /\ [](\A p \in Requests :
            pc[p] \in {"ensure_close", "ensure_launch"} => lock = p)
    /\ [][\A p \in Requests :
            pc[p] = "ensure_wait" /\ pc'[p] # "ensure_wait" /\ pc'[p] # "done" =>
              IF BrowserUsable
              THEN /\ pc'[p] = "new_context"
                   /\ UNCHANGED poolVars
                   /\ target'[p] = browser
              ELSE /\ pc'[p] \in {"ensure_close", "ensure_launch"}
                   /\ lock' = p
                   /\ UNCHANGED <<browser, connected, launched>>]_vars
    /\ [][\A p \in Requests :
            pc[p] # "new_context" /\ pc'[p] = "new_context" =>
              /\ browser' # 0
              /\ browser' \in connected'
              /\ target'[p] = browser']_vars
    /\ [][launched' # launched =>
            \E p \in Requests : pc[p] = "ensure_launch" /\ lock = p]_vars

\* Both ways through the liveness check have been taken: a relaunch has
\* replaced the first browser, one request leases a context of the new
\* one and another is creating a context on it.
C27_Witness ==
    \E p, q \in Requests :
        /\ browser = 2 /\ browser \in connected
        /\ pc[p] = "new_context" /\ target[p] = browser
        /\ pc[q] = "lease" /\ context[q] = browser

\* C29: a request whose launch failed holds nothing: no slot, no context,
\* no browser to create a context on, and not the guard; the limiter counts
\* exactly the slots held, so the slot was given back once; its failure
\* leaves the handle as it was, so the next liveness check finds it absent
\* or disconnected and relaunches.
C29_LaunchFailureReleases ==
    /\ [](\A p \in Requests :
            pc[p] = "done" /\ outcome[p] = "launch_error" =>
              /\ slots[p] = 0 /\ context[p] = 0 /\ target[p] = 0 /\ lock # p)
    /\ [](semaphore = MaxConcurrent - Cardinality({p \in Requests : slots[p] = 1}))
    /\ [][\A p \in Requests :
            pc[p] = "ensure_launch" /\ pc'[p] = "done" /\ outcome'[p] = "launch_error" =>
              /\ lock' = 0
              /\ semaphore' = semaphore + 1
              /\ UNCHANGED <<browser, connected, launched>>
              /\ ~BrowserUsable']_vars

\* A launch failed and the next request is relaunching.
C29_Witness ==
    \E p, q \in Requests :
        /\ pc[p] = "done" /\ outcome[p] = "launch_error"
        /\ pc[q] = "ensure_launch" /\ lock = q

\* ------------------------------------------------- claims on the pipeline
Holding == {k \in Kinds : holds[k]}

\* C3: release_context gives back exactly one slot on every call, also when
\* context.close() raises, and the close error does not reach its caller: the
\* request ends with the result or exception of its body.
C3_ReleaseAlwaysFreesSlot ==
    /\ permits = MaxConcurrent - Cardinality(Holding)
    /\ \A k \in Kinds :
          /\ stage[k] = "done" => ~holds[k]
          /\ closeRaised[k] =>
                /\ stage[k] \in {"upload", "done"}
                /\ result[k] \in {"ok", "page_error", "timeout", "capture_timeout",
                                  "upload_error", "upload_timeout"}

\* A request whose context.close() raised has ended with its body's result.
C3_Witness ==
    \E k \in Kinds : closeRaised[k] /\ stage[k] = "done" /\ result[k] = "ok" /\ ~holds[k]

\* C8: a capture whose page does not finish loading before the overall
\* timeout ends as a timeout-classified failure (timeout, retryable), its
\* lease is released, and with every operation ended all slots are free.
C8_TimeoutReleasesLease ==
    /\ \A k \in Kinds :
          stage[k] = "done" /\ result[k] = "timeout" =>
              /\ reply[k].status = 504
              /\ reply[k].timeout
              /\ reply[k].retryable
              /\ ~holds[k]
    /\ (\A k \in Kinds : stage[k] = "done") => permits = MaxConcurrent

\* The capture navigated, the load event never came, the timeout ended it.
C8_Witness ==
    /\ stage["capture"] = "done"
    /\ result["capture"] = "timeout"
    /\ ~page.load
    /\ trace["capture"] # <<>>
    /\ permits = MaxConcurrent - Cardinality(Holding)
    /\ ~holds["capture"]

\* The stage whose exception ended the request body.
RaisedIn(k) ==
    IF result[k] = "page_error" /\ trace[k] # <<>> /\ ~trace[k][Len(trace[k])].ok
    THEN trace[k][Len(trace[k])].op
    ELSE "none"

\* C9: of the pipeline stages only navigation can fail the request: no later
\* stage (load wait, probes, network-idle waits, auto-scroll, image wait,
\* settle delay) ends the request by a timeout or an error.
C9_OnlyNavigationAborts ==
    \A k \in Kinds : RaisedIn(k) \in {"none", "navigate"}

\* The readiness pipeline has run to its end.
Reached(k) == stage[k] = "final" \/ result[k] = "ok"

NotSettle(e) == e.op # "settle"

\* The stages from the auto-scroll on.
FromScroll(tr) ==
    LET i == CHOOSE j \in 1..Len(tr) : tr[j].op = "scroll"
    IN  SubSeq(tr, i, Len(tr))

IsSettle(e) == e.op = "settle"

\* The time an operation has slept in its settle stage (0 when it has not).
Waited(k) ==
    LET sl == SelectSeq(trace[k], IsSettle)
    IN  IF sl = <<>> THEN 0 ELSE sl[1].budget

\* C11: the settle delay of a capture is min(max(d, p), 10000) ms for the
\* requested delay d and the configured post-load delay p; an extraction,
\* which takes no requested delay, sleeps min(p, 10000) ms; neither sleeps
\* more than once or more than 10000 ms.
C11_SettleDelayCapped ==
    \A k \in Kinds :
        /\ Len(SelectSeq(trace[k], IsSettle)) <= 1
        /\ Waited(k) <= 10000
        /\ Reached(k) =>
              Waited(k) = Min(Max(IF k = "capture" THEN delay ELSE 0, postLoad), 10000)

\* A capture asked for a delay of 999999 ms with 5000 ms configured has
\* slept 10000 ms.
C11_Witness ==
    /\ delay = 999999
    /\ postLoad = 5000
    /\ Reached("capture")
    /\ Waited("capture") = 10000

\* C12: a capture whose screenshot-specific timeout expires fails as an
\* internal error, not as a timeout.
C12_CaptureTimeoutIsInternalError ==
    \A k \in Kinds :
        stage[k] = "done" /\ result[k] = "capture_timeout" =>
            /\ reply[k].status = 500
            /\ "timeout" \notin DOMAIN reply[k]

\* C13: a failed upload, its own timeout included, is answered as an error
\* other than the capture timeout and marked non-retryable.
C13_UploadFailureNotRetryable ==
    \A k \in Kinds :
        stage[k] = "done" /\ result[k] \in {"upload_error", "upload_timeout"} =>
            /\ reply[k] # Respond(k, "timeout")
            /\ reply[k].retryable = FALSE

IsNavigate(e) == e.op = "navigate"

\* The calls of page.goto an operation has made.
Navigations(k) == Len(SelectSeq(trace[k], IsNavigate))

\* C14: page.goto is called at most once per request, and a request whose
\* navigation raised is answered as an internal error, not as a timeout.
C14_NavigationFailureNotRetried ==
    \A k \in Kinds :
        /\ Navigations(k) <= 1
        /\ stage[k] = "done" /\ RaisedIn(k) = "navigate" =>
              /\ reply[k].status = 500
              /\ reply[k].retryable = FALSE
              /\ "timeout" \notin DOMAIN reply[k]

\* A request has ended on the failure of its one navigation.
C14_Witness ==
    \E k \in Kinds :
        /\ stage[k] = "done"
        /\ RaisedIn(k) = "navigate"
        /\ Navigations(k) = 1
        /\ reply[k].status = 500

Failed(k) == stage[k] = "done" /\ result[k] # "ok"

\* C15 as stated: every failed request is answered as a validation error, a
\* timeout or an internal error, and the response carries a retryable flag.
C15_EveryFailureCarriesRetryable ==
    \A k \in Kinds :
        Failed(k) =>
            /\ reply[k].status \in {400, 504, 500}
            /\ "retryable" \in DOMAIN reply[k]

\* C15 as amended: every failed request is answered as exactly one of
\* validation error (400), timeout (504) and internal error (500); the
\* timeout carries retryable true, the internal error retryable false, the
\* validation error no retryable flag.
C15_FailureClasses ==
    \A k \in Kinds :
        Failed(k) =>
            /\ reply[k].status \in {400, 504, 500}
            /\ reply[k].status = 400 <=> result[k] = "invalid_url"
            /\ reply[k].status = 504 <=> result[k] \in AsyncioTimeouts
            /\ reply[k].status \in {504, 500} => "retryable" \in DOMAIN reply[k]
            /\ reply[k].status = 504 => reply[k].retryable /\ reply[k].timeout
            /\ reply[k].status = 500 =>
                  reply[k].retryable = FALSE /\ "timeout" \notin DOMAIN reply[k]
            /\ reply[k].status = 400 => "retryable" \notin DOMAIN reply[k]

\* One operation has ended as an internal error while the other timed out.
C15_Witness ==
    \E k, j \in Kinds :
        /\ Failed(k) /\ reply[k].status = 500
        /\ Failed(j) /\ reply[j].status = 504

\* C16: a request whose URL validate_url rejects is answered 400 and never
\* takes a slot, opens a page or navigates; whoever holds a slot or has
\* navigated has had this URL accepted.
C16_ValidationPrecedesCore ==
    \A k \in Kinds :
        /\ ValidateUrl(url) # "valid" =>
              /\ stage[k] \in {"validate", "done"}
              /\ ~holds[k]
              /\ trace[k] = <<>>
              /\ permits = MaxConcurrent
              /\ stage[k] = "done" => reply[k].status = 400
        /\ stage[k] \notin {"validate", "done"} \/ holds[k] \/ Navigations(k) > 0 =>
              ValidateUrl(url) = "valid"
        /\ reply[k].status = 400 <=> stage[k] = "done" /\ ValidateUrl(url) # "valid"

\* A rejected request has been answered without touching the pool.
C16_Witness ==
    \E k \in Kinds :
        /\ ValidateUrl(url) # "valid"
        /\ stage[k] = "done"
        /\ reply[k].status = 400
        /\ trace[k] = <<>>

\* C17: the pipeline and the final operation run while the slot is held,
\* after the acquire; the final operation follows the whole pipeline; the
\* upload is made by the capture only, after the screenshot succeeded and
\* the slot went back; a success is answered after all of it.
C17_OperationOrder ==
    \A k \in Kinds :
        /\ stage[k] \in PipelineStages \cup {"new_page", "final", "release"} <=> holds[k]
        /\ stage[k] \in {"validate", "acquire"} => trace[k] = <<>> /\ result[k] = "none"
        /\ stage[k] = "final" =>
              /\ trace[k] # <<>>
              /\ trace[k][1].op = "navigate"
              /\ trace[k][Len(trace[k])].op \in {"images", "settle"}
        /\ result[k] = "ok" => trace[k] # <<>> /\ stage[k] \in {"release", "upload", "done"}
        /\ stage[k] = "upload" =>
              /\ k = "capture"
              /\ result[k] = "ok"
              /\ ~holds[k]
              /\ permits = MaxConcurrent - Cardinality(Holding)
        /\ reply[k].status = 200 => result[k] = "ok" /\ ~holds[k]

\* The capture is uploading its image, its slot given back.
C17_Witness ==
    /\ stage["capture"] = "upload"
    /\ ~holds["capture"]
    /\ permits = MaxConcurrent - Cardinality(Holding)
    /\ trace["capture"] # <<>>

IsProbe(e) == e.op = "content_probe"

\* The evaluations of the readiness script the capture has made.
Probes == SelectSeq(trace["capture"], IsProbe)

\* C25: the capture evaluates the readiness probe a second time only for a
\* page the first evaluation found not ready, after one network-idle wait
\* of 10000 ms, and that second evaluation is a single query: it does not
\* carry the 20000 ms budget of the polling loop.
C25_ReprobeIsSingleQuery ==
    /\ Len(Probes) <= 2
    /\ Len(Probes) = 2 =>
          /\ ~page.ready
          /\ \E i \in 1..Len(trace["capture"]) - 1 :
                /\ trace["capture"][i] = [op |-> "content_probe", budget |-> 20000, ok |-> TRUE]
                /\ trace["capture"][i + 1].op = "networkidle"
                /\ trace["capture"][i + 1].budget = 10000
                /\ trace["capture"][i + 2].op = "content_probe"
          /\ Probes[2].budget < 20000
    /\ stage["capture"] \in {"scroll", "idle2", "images", "settle", "final"} /\ ~page.ready =>
          Len(Probes) = 2

\* ------------------------------------------ claims on the readiness script
SelectorIndexes == 1..Len(SPA_SELECTORS)

\* One iteration of the polling loop on the document as it is.
PollStep ==
    /\ probe.phase = "poll"
    /\ probe.elapsed < maxWait
    /\ probe' # probe
    /\ probe'.dom = probe.dom

\* Selector i matches an element holding more than 50 characters.
TextRoot(d, i) == d.roots[i].present /\ d.roots[i].text > 50

\* Selector i matches an element with a child element that holds more than
\* 50 characters or more than one image.
RenderedRoot(d, i) ==
    /\ d.roots[i].present
    /\ d.roots[i].children >= 1
    /\ (d.roots[i].text >= 51 \/ d.roots[i].imgs >= 2)

\* What a returned probe says, whatever decided it.
ProbeReturnsWell ==
    probe.phase = "returned" =>
        /\ probe.found # 0 =>
              probe.result.ready /\ probe.result.source = SPA_SELECTORS[probe.found]
        /\ probe.result.source = "body" => probe.result.ready /\ probe.found = 0
        /\ probe.result.source = "timeout" =>
              /\ ~probe.result.ready
              /\ probe.found = 0
              /\ probe.elapsed >= maxWait
              /\ probe.polls * 500 >= maxWait
        /\ probe.result.source \in
              {SPA_SELECTORS[i] : i \in SelectorIndexes} \cup {"body", "timeout"}

\* C22 as stated: at every poll, a root holding more than 50 characters of
\* text makes the probe return ready with the first such selector; with no
\* such root, a body of more than 200 characters makes it return ready
\* from "body"; with neither the probe goes on polling, and it returns
\* ready=false, "timeout" once the budget is spent.
C22_ReadyByTextAlone ==
    /\ []ProbeReturnsWell
    /\ [][PollStep =>
            LET d == probe.dom
            IN  /\ \A i \in SelectorIndexes :
                      TextRoot(d, i) /\ (\A j \in 1..(i - 1) : ~TextRoot(d, j)) =>
                          probe'.phase = "grace" /\ probe'.found = i
                /\ (\A i \in SelectorIndexes : ~TextRoot(d, i)) /\ BodyText(d) > 200 =>
                      probe'.phase = "returned" /\ probe'.result.source = "body"
                /\ (\A i \in SelectorIndexes : ~TextRoot(d, i)) /\ BodyText(d) <= 200 =>
                      probe'.phase = "poll"]_vars

\* C22, amended: at every poll, a root is ready when its selector matches
\* an element that has a child element and holds more than 50 characters
\* of text or more than one image; the first ready root in list order
\* makes the probe wait a second and return ready with its selector; with
\* no ready root, a body of more than 200 characters or a document of more
\* than 3 images makes it return ready from "body"; otherwise the probe
\* sleeps 500 ms and polls again, and it returns ready=false, "timeout"
\* only once 20000 ms have gone in such polls.
C22_ReadyByRenderedRoot ==
    /\ []ProbeReturnsWell
    /\ [][PollStep =>
            LET d == probe.dom
            IN  /\ \A i \in SelectorIndexes :
                      RenderedRoot(d, i) /\ (\A j \in 1..(i - 1) : ~RenderedRoot(d, j)) =>
                          /\ probe'.phase = "grace"
                          /\ probe'.found = i
                          /\ probe'.elapsed = probe.elapsed
                /\ (\A i \in SelectorIndexes : ~RenderedRoot(d, i))
                      /\ (BodyText(d) > 200 \/ BodyImgs(d) > 3) =>
                        /\ probe'.phase = "returned"
                        /\ probe'.result.ready
                        /\ probe'.result.source = "body"
                /\ (\A i \in SelectorIndexes : ~RenderedRoot(d, i))
                      /\ BodyText(d) <= 200 /\ BodyImgs(d) <= 3 =>
                        /\ probe'.phase = "poll"
                        /\ probe'.elapsed = probe.elapsed + 500
                        /\ probe'.result = probe.result]_vars
    /\ [][probe.phase = "grace" /\ probe'.phase # "grace" =>
            /\ probe'.phase = "returned"
            /\ probe'.elapsed = probe.elapsed + 1000
            /\ probe'.result.source = SPA_SELECTORS[probe.found]]_vars

\* The probe has returned for `main` on a document whose #root holds more
\* than 50 characters of text and no child element.
C22_Witness ==
    /\ probe.running
    /\ probe.phase = "returned"
    /\ probe.result.source = "main"
    /\ TextRoot(probe.dom, 1)
    /\ probe.dom.roots[1].children = 0

\* --------------------------------------------- claims on the scroll script
\* The total scrolled, the ticks made and the resets to the top, at any
\* moment of the loop.
ScrollWithinCap ==
    /\ scroll.totalHeight = scroll.ticks * 864
    /\ scroll.totalHeight < 15000 + 864
    /\ scroll.ticks <= 18
    /\ ~scroll.done => scroll.totalHeight < 15000 /\ scroll.elapsed < 40000
    /\ scroll.resets = (IF scroll.done THEN 1 ELSE 0)
    /\ scroll.done => scroll.position = 0

\* C26: whatever the page's height does between ticks, the scroll loop
\* ends.  Every tick adds floor(0.8 * viewport height) to the total, and a
\* tick is the last one exactly when the total has reached the height it
\* read minus one viewport, or 15000 px, or 40000 ms have passed; so the
\* loop makes at most 18 ticks, the total stays below 15000 px plus one
\* step, and the page is put back to its top once, by the last tick.
C26_ScrollTerminates ==
    /\ <>(scroll.done = TRUE)
    /\ []ScrollWithinCap
    /\ [][scroll'.ticks # scroll.ticks =>
            /\ scroll'.ticks = scroll.ticks + 1
            /\ scroll'.totalHeight = scroll.totalHeight + 864
            /\ scroll'.done <=>
                  \/ scroll'.totalHeight >= scroll.scrollHeight - 1080
                  \/ scroll'.totalHeight >= 15000
                  \/ scroll'.elapsed >= 40000]_vars
    /\ [][scroll.done => scroll' = scroll]_vars

\* The loop has ended on the 15000 px cap, on a page that kept growing,
\* before the time budget was spent.
C26_Witness ==
    /\ scroll.running
    /\ scroll.done
    /\ scroll.totalHeight >= 15000
    /\ scroll.totalHeight < scroll.scrollHeight - 1080
    /\ scroll.elapsed < 40000
    /\ scroll.resets = 1

\* -------------------------------------------- claims on the image transform
\* The five conditions of the filter, on one image.
PassesFilter(img) ==
    /\ img.width >= minWidth
    /\ img.height >= minHeight
    /\ ~(img.width = 1 /\ img.height = 1)
    /\ img.src # <<>>
    /\ ~StartsWithData(img.src)

\* C19: the filter returns exactly the input images, in their order, that
\* are at least minWidth wide and minHeight high, are not 1x1, and have a
\* non-empty src that does not start with "data:".
C19_FilterKeepsExactly ==
    extraction.done => extraction.filtered = SelectSeq(allImages, PassesFilter)

\* A list of three of which the filter dropped the data URI only.
C19_Witness ==
    /\ extraction.done
    /\ Len(allImages) = 3
    /\ Len(extraction.filtered) = 2
    /\ StartsWithData(allImages[2].src)
    /\ extraction.filtered = <<allImages[1], allImages[3]>>

HeroTest(img) ==
    /\ 5 * img.y < pageContext.viewportHeight
    /\ 2 * img.width > pageContext.viewportWidth
    /\ img.height > 400
LogoTest(img) == img.containsLogo /\ img.inHeader /\ img.width < 300
ProductTest(img) == img.width >= 300 /\ img.height >= 200 /\ img.containsProductKeywords
IconTest(img) == img.width < 100 /\ img.height < 100
ThumbnailTest(img) ==
    /\ 100 <= img.width /\ img.width < 400
    /\ 100 <= img.height /\ img.height < 400

\* C20: every image gets exactly one label, that of the first rule it
\* matches in the order hero, logo, product, icon, thumbnail, and content
\* when it matches none (so hero wins over logo); the output has as many
\* images as the input, in the same order.
C20_FirstMatchingRule ==
    extraction.done =>
        /\ Len(extraction.images) = Len(extraction.limited)
        /\ \A i \in 1..Len(extraction.images) :
              LET img == extraction.limited[i]
                  out == extraction.images[i]
                  label == out.classification
              IN  /\ out.src = img.src /\ out.width = img.width
                  /\ out.height = img.height /\ out.y = img.y
                  /\ label \in {"hero", "logo", "product", "icon", "thumbnail", "content"}
                  /\ label = "hero" <=> HeroTest(img)
                  /\ label = "logo" <=> ~HeroTest(img) /\ LogoTest(img)
                  /\ label = "product" <=>
                        ~HeroTest(img) /\ ~LogoTest(img) /\ ProductTest(img)
                  /\ label = "icon" <=>
                        /\ ~HeroTest(img) /\ ~LogoTest(img) /\ ~ProductTest(img)
                        /\ IconTest(img)
                  /\ label = "thumbnail" <=>
                        /\ ~HeroTest(img) /\ ~LogoTest(img) /\ ~ProductTest(img)
                        /\ ~IconTest(img) /\ ThumbnailTest(img)
                  /\ label = "content" <=>
                        /\ ~HeroTest(img) /\ ~LogoTest(img) /\ ~ProductTest(img)
                        /\ ~IconTest(img) /\ ~ThumbnailTest(img)

\* An image that passes the hero test and the logo test has been labelled
\* hero.
C20_Witness ==
    /\ extraction.done
    /\ \E i \in 1..Len(extraction.images) :
          /\ HeroTest(extraction.limited[i])
          /\ LogoTest(extraction.limited[i])
          /\ extraction.images[i].classification = "hero"

\* The images of the raw list that pass the filter, in order.
Passing == SelectSeq(allImages, PassesFilter)

\* C21: the result has at most maxImages images, and they are the first
\* maxImages images passing the filter, in order: the limit is applied to
\* the filtered list and the classification gets no more than maxImages.
C21_LimitAfterFilter ==
    extraction.done =>
        /\ Len(extraction.images) <= maxImages
        /\ Len(extraction.limited) <= maxImages
        /\ Len(extraction.images) = Min(maxImages, Len(Passing))
        /\ \A i \in 1..Len(extraction.images) :
              /\ extraction.limited[i] = Passing[i]
              /\ extraction.images[i].src = Passing[i].src
              /\ extraction.images[i].width = Passing[i].width
              /\ extraction.images[i].height = Passing[i].height

\* The first raw image was dropped by the filter, two passed, the limit of
\* one kept the first of them.
C21_Witness ==
    /\ extraction.done
    /\ maxImages = 1
    /\ Len(allImages) = 3
    /\ ~PassesFilter(allImages[1])
    /\ Len(extraction.filtered) = 2
    /\ extraction.limited = <<allImages[2]>>
    /\ Len(extraction.images) = 1

\* C30: totalImages is the number of images returned; filteredOut is the
\* number of raw images minus the number passing the filter, whatever
\* maxImages is; their sum is at most the number of raw images, and equal
\* to it exactly when the limit cut nothing.
C30_ExtractionCounts ==
    extraction.done =>
        /\ extraction.totalImages = Len(extraction.images)
        /\ extraction.filtered_count = Len(allImages) - Len(Passing)
        /\ extraction.totalImages + extraction.filtered_count <= Len(allImages)
        /\ extraction.totalImages + extraction.filtered_count = Len(allImages)
              <=> Len(Passing) <= maxImages

\* The limit cut an image: the two counts add up to less than the raw list.
C30_Witness ==
    /\ extraction.done
    /\ Len(Passing) > maxImages
    /\ extraction.filtered_count > 0
    /\ extraction.totalImages + extraction.filtered_count < Len(allImages)

====
